---- MODULE Spec2Model ----
(***************************************************************************)
(* Cut composition and truncation engine of lhotse (lhotse/cut.py).        *)
(*                                                                         *)
(* Seconds are counted in ticks of 1e-5 s, so that the tolerance added on  *)
(* line 130 of cut.py is exactly one tick and all arithmetic is exact; the *)
(* times given to the operations are whole seconds.                        *)
(* An Optional[...] argument is the empty sequence (None) or <<value>>.    *)
(* A raised exception is the record Raise(kind).                           *)
(* uuid4() is a counter: every call returns an id never returned before.   *)
(***************************************************************************)
EXTENDS Integers, Sequences, FiniteSets, TLC

\* ---------------------------------------------------------------- bounds
MaxDur    == 2      \* simple cuts last 1..MaxDur seconds
MaxTime   == 2      \* offsets and durations passed to the operations, in seconds
MaxTracks == 3      \* longest track list built
MaxCalls  == 2      \* calls made in one run

\* ---------------------------------------------------------------- values
Epsilon == 1

TicksPerSecond == 100000

Seconds(n) == n * TicksPerSecond

None == <<>>
Some(v) == <<v>>

Raise(kind) == [type |-> "Error", kind |-> kind]

max(a, b) == IF a >= b THEN a ELSE b

Features(n) == [recording_id |-> "dummy-recording-0000", channel_id |-> 0, num_features |-> n]

SupervisionSegment(id, start, duration) == [id |-> id, start |-> start, duration |-> duration]

TimeSpan(start, end) == [start |-> start, end |-> end]

Cut(id, start, duration, features, supervisions) ==
    [type |-> "Cut", id |-> id, start |-> start, duration |-> duration,
     features |-> features, supervisions |-> supervisions]

MixTrack(cut, offset, snr) == [cut |-> cut, offset |-> offset, snr |-> snr]

MixedCut(id, tracks) == [type |-> "MixedCut", id |-> id, tracks |-> tracks]

\* ---------------------------------------------------------------- utils
SegmentEnd(segment) == segment.start + segment.duration

overlaps(span, segment) == span.start < SegmentEnd(segment) /\ segment.start < span.end

overspans(span, segment) == span.start <= segment.start /\ SegmentEnd(segment) <= span.end

\* ---------------------------------------------------------------- properties
RECURSIVE HasDuration(_)
HasDuration(c) ==
    IF c.type = "Cut" THEN TRUE
    ELSE /\ Len(c.tracks) > 0
         /\ \A i \in 1..Len(c.tracks) : HasDuration(c.tracks[i].cut)

RECURSIVE MaxOf(_)
MaxOf(s) == IF Len(s) = 1 THEN s[1] ELSE max(s[1], MaxOf(Tail(s)))

RECURSIVE duration(_)
duration(c) ==
    IF c.type = "Cut" THEN c.duration
    ELSE MaxOf([i \in 1..Len(c.tracks) |-> c.tracks[i].offset + duration(c.tracks[i].cut)])

RECURSIVE HasNumFeatures(_)
HasNumFeatures(c) ==
    IF c.type = "Cut" THEN TRUE
    ELSE Len(c.tracks) > 0 /\ HasNumFeatures(c.tracks[1].cut)

RECURSIVE num_features(_)
num_features(c) ==
    IF c.type = "Cut" THEN c.features.num_features
    ELSE num_features(c.tracks[1].cut)

\* ---------------------------------------------------------------- Cut
\* An operation returns [val |-> the value returned or the exception raised,
\*                       nid |-> the next id uuid4 will hand out].
Returned(val, nid) == [val |-> val, nid |-> nid]

IsError(v) == v.type = "Error"

\* line 132 with the two criteria exchanged
criterion_swapped(keep_excessive_supervisions, span, segment) ==
    IF keep_excessive_supervisions THEN overspans(span, segment) ELSE overlaps(span, segment)

\* line 132: criterion = overlaps if keep_excessive_supervisions else overspans
criterion(keep_excessive_supervisions, span, segment) ==
    IF keep_excessive_supervisions THEN overlaps(span, segment) ELSE overspans(span, segment)

Cut_truncate(self, offset, dur, keep_excessive_supervisions, preserve_id, nid) ==
    LET new_start == self.start + offset
        until == offset + (IF dur # None THEN dur[1] ELSE self.duration)
        new_duration == IF dur = None THEN self.duration - new_start ELSE until - offset
        new_time_span == TimeSpan(new_start, new_start + new_duration)
    IN  IF ~(new_duration > 0) THEN Returned(Raise("AssertionError"), nid)
        ELSE IF ~(new_start + new_duration <= self.start + self.duration + Epsilon)
        THEN Returned(Raise("AssertionError"), nid)
        ELSE Returned(
                Cut(IF preserve_id THEN self.id ELSE nid,
                    new_start,
                    new_duration,
                    self.features,
                    SelectSeq(self.supervisions,
                              LAMBDA segment : criterion(keep_excessive_supervisions, new_time_span, segment))),
                IF preserve_id THEN nid ELSE nid + 1)

\* lines 153-157 without the isinstance test: a MixedCut becomes one nested track
overlay_new_tracks_nested(other, offset_other_by, snr) ==
    <<MixTrack(other, offset_other_by, snr)>>

\* new_tracks of overlay (lines 153-157 and 252-256)
overlay_new_tracks(other, offset_other_by, snr) ==
    IF other.type = "Cut" THEN <<MixTrack(other, offset_other_by, snr)>> ELSE other.tracks

\* Cut.overlay without the assertion of lines 151-152 on offset_other_by
Cut_overlay_any_offset(self, other, offset_other_by, snr, nid) ==
    IF ~HasNumFeatures(other) THEN Returned(Raise("IndexError"), nid)
    ELSE IF ~(num_features(self) = num_features(other)) THEN Returned(Raise("AssertionError"), nid)
    ELSE Returned(MixedCut(nid, <<MixTrack(self, 0, None)>> \o overlay_new_tracks(other, offset_other_by, snr)),
                  nid + 1)

Cut_overlay(self, other, offset_other_by, snr, nid) ==
    IF ~HasNumFeatures(other) THEN Returned(Raise("IndexError"), nid)
    ELSE IF ~(num_features(self) = num_features(other)) THEN Returned(Raise("AssertionError"), nid)
    ELSE IF ~(offset_other_by <= self.duration) THEN Returned(Raise("AssertionError"), nid)
    ELSE Returned(MixedCut(nid, <<MixTrack(self, 0, None)>> \o overlay_new_tracks(other, offset_other_by, snr)),
                  nid + 1)

Cut_append(self, other, snr, nid) == Cut_overlay(self, other, self.duration, snr, nid)

\* ---------------------------------------------------------------- MixedCut
MixedCut_overlay(self, other, offset_other_by, snr, nid) ==
    IF ~HasNumFeatures(self) \/ ~HasNumFeatures(other) THEN Returned(Raise("IndexError"), nid)
    ELSE IF ~(num_features(self) = num_features(other)) THEN Returned(Raise("AssertionError"), nid)
    ELSE IF ~HasDuration(self) THEN Returned(Raise("ValueError"), nid)
    ELSE IF ~(offset_other_by <= duration(self)) THEN Returned(Raise("AssertionError"), nid)
    ELSE Returned(MixedCut(nid, self.tracks \o overlay_new_tracks(other, offset_other_by, snr)),
                  nid + 1)

MixedCut_append(self, other, snr, nid) ==
    IF ~HasDuration(self) THEN Returned(Raise("ValueError"), nid)
    ELSE MixedCut_overlay(self, other, duration(self), snr, nid)

\* sorted(tracks, key=lambda t: t.offset): stable insertion sort
RECURSIVE insert_by_offset(_, _)
insert_by_offset(track, s) ==
    IF s = <<>> THEN <<track>>
    ELSE IF track.offset < Head(s).offset THEN <<track>> \o s
    ELSE <<Head(s)>> \o insert_by_offset(track, Tail(s))

\* line 300 without sorted(): the tracks in the order of the list
unsorted(tracks) == tracks

RECURSIVE sorted_by_offset(_)
sorted_by_offset(tracks) ==
    IF tracks = <<>> THEN <<>>
    ELSE LET n == Len(tracks)
         IN  insert_by_offset(tracks[n], sorted_by_offset(SubSeq(tracks, 1, n - 1)))

\* lines 317-322 without the trimming of the end of the track
cut_duration_decrease_untrimmed(track_end, new_mix_end, old_duration, dur) == 0

\* lines 317-322: how much of the end of a track's cut is trimmed
cut_duration_decrease(track_end, new_mix_end, old_duration, dur) ==
    IF track_end > new_mix_end
    THEN (IF dur # None THEN track_end - new_mix_end ELSE track_end - old_duration)
    ELSE 0

RECURSIVE MixedCut_truncate(_, _, _, _, _, _)
RECURSIVE truncate_tracks(_, _, _, _, _, _, _)

\* cut.truncate(...) on a track's cut: dispatched on the type of the receiver
AnyCut_truncate(self, offset, dur, keep_excessive_supervisions, preserve_id, nid) ==
    IF self.type = "Cut"
    THEN Cut_truncate(self, offset, dur, keep_excessive_supervisions, preserve_id, nid)
    ELSE MixedCut_truncate(self, offset, dur, keep_excessive_supervisions, preserve_id, nid)

\* the loop of lines 300-341 over the remaining sorted tracks: err is None or
\* <<the exception an inner truncate raised>>, tracks the new tracks appended
Looped(err, tracks, nid) == [err |-> err, tracks |-> tracks, nid |-> nid]

truncate_tracks(rest, offset, dur, old_duration, keep_excessive_supervisions, preserve_id, nid) ==
    IF rest = <<>> THEN Looped(None, <<>>, nid)
    ELSE
    LET track == Head(rest)
        new_mix_end == IF dur = None THEN old_duration - offset ELSE offset + dur[1]
        cut_offset == max(offset - track.offset, 0)
        track_offset == max(track.offset - offset, 0)
        track_end == track.offset + duration(track.cut)
        new_duration == duration(track.cut) - cut_offset
                            - cut_duration_decrease(track_end, new_mix_end, old_duration, dur)
        skip == track_end < offset \/ new_duration <= 0
        inner == AnyCut_truncate(track.cut, cut_offset, Some(new_duration),
                                 keep_excessive_supervisions, preserve_id, nid)
        tail == truncate_tracks(Tail(rest), offset, dur, old_duration,
                                keep_excessive_supervisions, preserve_id,
                                IF skip THEN nid ELSE inner.nid)
    IN  IF skip THEN tail
        ELSE IF IsError(inner.val) THEN Looped(Some(inner.val), <<>>, inner.nid)
        ELSE Looped(tail.err, <<MixTrack(inner.val, track_offset, track.snr)>> \o tail.tracks, tail.nid)

MixedCut_truncate(self, offset, dur, keep_excessive_supervisions, preserve_id, nid) ==
    IF ~HasDuration(self) THEN Returned(Raise("ValueError"), nid)
    ELSE
    LET old_duration == duration(self)
        loop == truncate_tracks(sorted_by_offset(self.tracks), offset, dur, old_duration,
                                keep_excessive_supervisions, preserve_id, nid)
    IN  IF loop.err # None THEN Returned(loop.err[1], loop.nid)
        ELSE Returned(MixedCut(loop.nid, loop.tracks), loop.nid + 1)

\* ---------------------------------------------------------------- helpers
truncate(self, offset, dur, keep_excessive_supervisions, preserve_id, nid) ==
    AnyCut_truncate(self, offset, dur, keep_excessive_supervisions, preserve_id, nid)

overlay(self, other, offset_other_by, snr, nid) ==
    IF self.type = "Cut" THEN Cut_overlay(self, other, offset_other_by, snr, nid)
    ELSE MixedCut_overlay(self, other, offset_other_by, snr, nid)

mix(left_cut, right_cut, offset_right_by, snr, nid) ==
    overlay(left_cut, right_cut, offset_right_by, snr, nid)

append(left_cut, right_cut, snr, nid) ==
    IF left_cut.type = "Cut" THEN Cut_append(left_cut, right_cut, snr, nid)
    ELSE MixedCut_append(left_cut, right_cut, snr, nid)

\* reduce(mix, cuts) and reduce(append, cuts): the left fold from acc over rest
RECURSIVE reduce_mix(_, _, _)
reduce_mix(acc, rest, nid) ==
    IF rest = <<>> THEN Returned(acc, nid)
    ELSE LET step == mix(acc, Head(rest), 0, None, nid)
         IN  IF IsError(step.val) THEN step ELSE reduce_mix(step.val, Tail(rest), step.nid)

RECURSIVE reduce_append(_, _, _)
reduce_append(acc, rest, nid) ==
    IF rest = <<>> THEN Returned(acc, nid)
    ELSE LET step == append(acc, Head(rest), None, nid)
         IN  IF IsError(step.val) THEN step ELSE reduce_append(step.val, Tail(rest), step.nid)

mix_cuts(cuts, nid) ==
    IF cuts = <<>> THEN Returned(Raise("TypeError"), nid)
    ELSE reduce_mix(Head(cuts), Tail(cuts), nid)

append_cuts(cuts, nid) ==
    IF cuts = <<>> THEN Returned(Raise("TypeError"), nid)
    ELSE reduce_append(Head(cuts), Tail(cuts), nid)

\* ---------------------------------------------------------------- CutSet
\* A dict is the sequence of its items in insertion order, its keys unique.
Item(key, value) == [key |-> key, value |-> value]

Keys(d) == {d[i].key : i \in 1..Len(d)}

\* d[key] = value: a key already present keeps its place
dict_set(d, key, value) ==
    IF key \in Keys(d)
    THEN [i \in 1..Len(d) |-> IF d[i].key = key THEN Item(key, value) ELSE d[i]]
    ELSE Append(d, Item(key, value))

\* {**d, **items}
RECURSIVE dict_update(_, _)
dict_update(d, items) ==
    IF items = <<>> THEN d
    ELSE dict_update(dict_set(d, Head(items).key, Head(items).value), Tail(items))

dict(items) == dict_update(<<>>, items)

CutSet(cuts) == [type |-> "CutSet", cuts |-> cuts]

\* __len__ and __iter__
CutSet_len(self) == Len(self.cuts)

CutSet_iter(self) == [i \in 1..Len(self.cuts) |-> self.cuts[i].value]

\* from_cuts keyed by the position of the cut instead of its id
from_cuts_by_position(cuts) ==
    CutSet(dict([i \in 1..Len(cuts) |-> Item(i, cuts[i])]))

from_cuts(cuts) ==
    CutSet(dict([i \in 1..Len(cuts) |-> Item(cuts[i].id, cuts[i])]))

\* random.uniform(0.0, last_offset): draw is the number of halves of the range
Draws == {0, 1}

uniform(low, high, draw) == low + ((high - low) * draw) \div 2

\* compute_offset (lines 432-440): None stands for the ValueError of line 440
compute_offset(cut, max_duration, offset_type, draw) ==
    LET last_offset == duration(cut) - max_duration
    IN  IF offset_type = "start" THEN Some(0)
        ELSE IF offset_type = "end" THEN Some(last_offset)
        ELSE IF offset_type = "random" THEN Some(uniform(0, last_offset, draw))
        ELSE None

\* lines 428-430 with the comparison turned around
passes_through_longer(cut, max_duration) == duration(cut) >= max_duration

\* lines 428-430: the cut is appended as it is
passes_through(cut, max_duration) == duration(cut) <= max_duration

\* lines 431-446: the offset is computed and the cut truncated at it; an
\* unknown offset_type raises ValueError
truncate_at(cut, offset, max_duration, keep_excessive_supervisions, preserve_id, nid) ==
    IF offset = None THEN Returned(Raise("ValueError"), nid)
    ELSE truncate(cut, offset[1], Some(max_duration),
                  keep_excessive_supervisions, preserve_id, nid)

\* truncated_cuts.append of lines 429 and 441: cut comes before what the rest
\* of the loop appends
truncated_cuts_append(cut, tail) == Looped(tail.err, <<cut>> \o tail.tracks, tail.nid)

\* the loop of lines 427-447 over the remaining cuts; draws holds one draw of
\* the random source for every cut; tracks of the result is truncated_cuts
RECURSIVE truncate_cuts(_, _, _, _, _, _, _)
RECURSIVE truncate_next(_, _, _, _, _, _, _)
truncate_cuts(rest, draws, max_duration, offset_type, keep_excessive_supervisions, preserve_id, nid) ==
    IF rest = <<>> THEN Looped(None, <<>>, nid)
    ELSE IF ~HasDuration(Head(rest)) THEN Looped(Some(Raise("ValueError")), <<>>, nid)
    ELSE IF passes_through(Head(rest), max_duration)
    THEN truncated_cuts_append(Head(rest),
                  truncate_cuts(Tail(rest), Tail(draws), max_duration, offset_type,
                                keep_excessive_supervisions, preserve_id, nid))
    ELSE truncate_next(truncate_at(Head(rest),
                                   compute_offset(Head(rest), max_duration, offset_type,
                                                  Head(draws)),
                                   max_duration, keep_excessive_supervisions, preserve_id, nid),
                       rest, draws, max_duration, offset_type,
                       keep_excessive_supervisions, preserve_id)

\* lines 441-447 once the cut is truncated: the loop ends on an exception,
\* otherwise the truncated cut is appended and the loop goes on
truncate_next(inner, rest, draws, max_duration, offset_type, keep_excessive_supervisions, preserve_id) ==
    IF IsError(inner.val) THEN Looped(Some(inner.val), <<>>, inner.nid)
    ELSE truncated_cuts_append(inner.val,
                  truncate_cuts(Tail(rest), Tail(draws), max_duration, offset_type,
                                keep_excessive_supervisions, preserve_id, inner.nid))

\* line 448: the truncated cuts become a CutSet, unless the loop raised
truncated_set(loop) ==
    IF loop.err # None THEN Returned(loop.err[1], loop.nid)
    ELSE Returned(from_cuts(loop.tracks), loop.nid)

CutSet_truncate(self, draws, max_duration, offset_type, keep_excessive_supervisions, preserve_id, nid) ==
    truncated_set(truncate_cuts(CutSet_iter(self), draws, max_duration, offset_type,
                                keep_excessive_supervisions, preserve_id, nid))

\* __add__ without the assertion of line 466
CutSet_add_unchecked(self, other) == CutSet(dict_update(self.cuts, other.cuts))

\* __add__
CutSet_add(self, other) ==
    IF Keys(self.cuts) \cap Keys(other.cuts) # {} THEN Raise("AssertionError")
    ELSE CutSet(dict_update(self.cuts, other.cuts))

\* ---------------------------------------------------------------- windows
ceil_div(a, b) == (a + b - 1) \div b

min(a, b) == IF a <= b THEN a ELSE b

\* a Features object that covers [start, start + duration) of its recording
FeaturesAt(start, dur) ==
    [recording_id |-> "dummy-recording-0000", channel_id |-> 0,
     start |-> start, duration |-> dur, num_features |-> 20]

Features_end(features) == features.start + features.duration

\* line 507 with floor in both cases
round_fn_floor(keep_shorter_windows, a, b) == a \div b

\* round_fn(a / b) of lines 507 and 513
round_fn(keep_shorter_windows, a, b) ==
    IF keep_shorter_windows THEN ceil_div(a, b) ELSE a \div b

\* lines 513-515
n_cuts(features, cut_duration, cut_shift, keep_shorter_windows) ==
    LET n == round_fn(keep_shorter_windows, features.duration, cut_shift)
    IN  IF (n - 1) * cut_shift + cut_duration > features.duration /\ ~keep_shorter_windows
        THEN n - 1 ELSE n

\* lines 516-527: the cuts made from one Features object
windowed_cuts(features, cut_duration, cut_shift, keep_shorter_windows, nid) ==
    [k \in 1..n_cuts(features, cut_duration, cut_shift, keep_shorter_windows) |->
        LET offset == features.start + (k - 1) * cut_shift
            dur == min(cut_duration, Features_end(features) - offset)
        IN  Cut(nid + k - 1, offset, dur, features, <<>>)]

\* the loop of lines 509-527 over the remaining Features objects
RECURSIVE windowed_cuts_of(_, _, _, _, _)
windowed_cuts_of(rest, cut_duration, cut_shift, keep_shorter_windows, nid) ==
    IF rest = <<>> THEN <<>>
    ELSE LET cuts == windowed_cuts(Head(rest), cut_duration, cut_shift, keep_shorter_windows, nid)
         IN  cuts \o windowed_cuts_of(Tail(rest), cut_duration, cut_shift,
                                      keep_shorter_windows, nid + Len(cuts))

make_windowed_cuts_from_features(feature_set, cut_duration, cut_shift, keep_shorter_windows, nid) ==
    LET shift == IF cut_shift = None THEN cut_duration ELSE cut_shift[1]
        cuts == windowed_cuts_of(feature_set, cut_duration, shift, keep_shorter_windows, nid)
    IN  IF feature_set # <<>> /\ shift = 0 THEN Returned(Raise("ZeroDivisionError"), nid)
        ELSE Returned(from_cuts(cuts), nid + Len(cuts))

\* ---------------------------------------------------------------- manipulation

\* contents[begin: end] of a list, begin and end counted from 0
slice(contents, begin, end) == SubSeq(contents, begin + 1, min(end, Len(contents)))

\* a Python list returned by an operation
List(items) == [type |-> "list", items |-> items]

\* lines 23-24 with the chunk size rounded down
split_indices_floor(num_items, num_splits) ==
    LET chunk_size == num_items \div num_splits
    IN  [k \in 1..num_splits |->
            [begin |-> (k - 1) * chunk_size, end |-> min(num_items, k * chunk_size)]]

\* split_indices of line 24
split_indices(num_items, num_splits) ==
    LET chunk_size == ceil_div(num_items, num_splits)
    IN  [k \in 1..num_splits |->
            [begin |-> (k - 1) * chunk_size, end |-> min(num_items, k * chunk_size)]]

\* maybe_randomize: order is the permutation random.shuffle produces
maybe_randomize(items, randomize, order) ==
    IF randomize THEN [i \in 1..Len(items) |-> items[order[i]]] ELSE items

\* split of a CutSet (lines 20-24 and 50-52)
split(manifest, num_splits, randomize, order) ==
    LET num_items == CutSet_len(manifest)
        contents == maybe_randomize(manifest.cuts, randomize, order)
        indices == split_indices(num_items, num_splits)
    IN  IF num_splits > num_items THEN Raise("ValueError")
        ELSE IF num_splits = 0 THEN Raise("ZeroDivisionError")
        ELSE List([k \in 1..num_splits |->
                        CutSet(dict(slice(contents, indices[k].begin, indices[k].end)))])

\* combine: reduce(add, manifests)
RECURSIVE reduce_add(_, _)
reduce_add(acc, rest) ==
    IF rest = <<>> THEN acc
    ELSE LET step == CutSet_add(acc, Head(rest))
         IN  IF IsError(step) THEN step ELSE reduce_add(step, Tail(rest))

combine(manifests) ==
    IF manifests = <<>> THEN Raise("TypeError") ELSE reduce_add(Head(manifests), Tail(manifests))

\* ---------------------------------------------------------------- objects
\* The mutable containers of Python: heap[ref] is the content of the list or
\* dict with the reference ref. An object on the heap is its value with the
\* reference of its container (supervisions, tracks or cuts) in place of the
\* content; the objects inside a container are values.
container(obj) ==
    IF obj.type = "Cut" THEN obj.supervisions
    ELSE IF obj.type = "MixedCut" THEN obj.tracks
    ELSE obj.cuts

with_container(obj, c) ==
    IF obj.type = "Cut" THEN [obj EXCEPT !.supervisions = c]
    ELSE IF obj.type = "MixedCut" THEN [obj EXCEPT !.tracks = c]
    ELSE [obj EXCEPT !.cuts = c]

deref(h, obj) == with_container(obj, h[container(obj)])

\* a container operation leaves the heap heap and yields the reference ref
Allocated(h, ref) == [heap |-> h, ref |-> ref]

\* a list display, a comprehension, sorted(...), a dict display or dict(...)
new_list(h, items) == Allocated(Append(h, items), Len(h) + 1)

\* a.extend(b) in the place of a + b: the list a itself is made longer
list_extend(h, a, b) == Allocated([h EXCEPT ![a] = h[a] \o h[b]], a)

\* a + b of two lists: a new list
list_add(h, a, b) == Allocated(Append(h, h[a] \o h[b]), Len(h) + 1)

\* a.append(x), in place, for every x of items in turn
RECURSIVE list_append(_, _, _)
list_append(h, a, items) ==
    IF items = <<>> THEN Allocated(h, a)
    ELSE list_append([h EXCEPT ![a] = Append(h[a], Head(items))], a, Tail(items))

\* {**a, **b}: a new dict
dict_merge(h, a, b) == Allocated(Append(h, dict_update(h[a], h[b])), Len(h) + 1)

\* what a call leaves: the heap, the object returned (or the exception), the next id
Left(h, val, nid) == [heap |-> h, val |-> val, nid |-> nid]

\* Cut.truncate (the comprehension of lines 137-139 makes the new list) and
\* MixedCut.truncate (new_tracks = [] of line 296, sorted() of line 300, and the
\* appends of line 329)
Heap_truncate(h, self, offset, dur, keep_excessive_supervisions, preserve_id, nid) ==
    LET r == truncate(deref(h, self), offset, dur, keep_excessive_supervisions, preserve_id, nid)
        supervisions == new_list(h, r.val.supervisions)
        new_tracks == new_list(h, <<>>)
        sorted == new_list(new_tracks.heap, sorted_by_offset(h[self.tracks]))
        appended == list_append(sorted.heap, new_tracks.ref, r.val.tracks)
    IN  IF IsError(r.val) THEN Left(h, r.val, r.nid)
        ELSE IF self.type = "Cut"
        THEN Left(supervisions.heap, with_container(r.val, supervisions.ref), r.nid)
        ELSE Left(appended.heap, with_container(r.val, appended.ref), r.nid)

\* overlay (lines 153-160 and 252-259); r is what the call returns by value
Heap_overlay(h, self, other, offset_other_by, snr, r) ==
    LET first == IF self.type = "Cut"
                 THEN new_list(h, <<MixTrack(deref(h, self), 0, None)>>)
                 ELSE Allocated(h, self.tracks)
        new_tracks == IF other.type = "Cut"
                      THEN new_list(first.heap, <<MixTrack(deref(h, other), offset_other_by, snr)>>)
                      ELSE Allocated(first.heap, other.tracks)
        tracks == list_add(new_tracks.heap, first.ref, new_tracks.ref)
    IN  IF IsError(r.val) THEN Left(h, r.val, r.nid)
        ELSE Left(tracks.heap, MixedCut(r.val.id, tracks.ref), r.nid)

\* CutSet.truncate: truncated_cuts = [] of line 426, its appends, and the dict
\* of from_cuts
Heap_CutSet_truncate(h, self, draws, max_duration, offset_type, keep_excessive_supervisions, preserve_id, nid) ==
    LET r == CutSet_truncate(deref(h, self), draws, max_duration, offset_type,
                             keep_excessive_supervisions, preserve_id, nid)
        truncated_cuts == list_append(new_list(h, <<>>).heap, Len(h) + 1, CutSet_iter(r.val))
        cuts == new_list(truncated_cuts.heap, r.val.cuts)
    IN  IF IsError(r.val) THEN Left(h, r.val, r.nid)
        ELSE Left(cuts.heap, CutSet(cuts.ref), r.nid)

\* CutSet.__add__
Heap_CutSet_add(h, self, other, nid) ==
    LET r == CutSet_add(deref(h, self), deref(h, other))
        cuts == dict_merge(h, self.cuts, other.cuts)
    IN  IF IsError(r) THEN Left(h, r, nid)
        ELSE Left(cuts.heap, CutSet(cuts.ref), nid)

\* ---------------------------------------------------------------- inputs
FeaturePool == {Features(20), Features(40)}

\* a cut at the beginning of its recording, and one a second into it
Starts == {0, 1}

SupervisionLists ==
    {<<SupervisionSegment("dummy-segment-0001", Seconds(1), Seconds(2)),
       SupervisionSegment("dummy-segment-0002", Seconds(0), Seconds(1)),
       SupervisionSegment("dummy-segment-0003", Seconds(1), Seconds(1))>>}

\* a simple cut holds the supervisions that overlap its span
SimpleCuts(id, starts, pool) ==
    {Cut(id, Seconds(start), Seconds(dur), features,
         SelectSeq(supervisions,
                   LAMBDA segment : overlaps(TimeSpan(Seconds(start), Seconds(start + dur)), segment))) :
        start \in starts, dur \in 1..MaxDur,
        features \in pool, supervisions \in SupervisionLists}

Offsets == {Seconds(t) : t \in 0..MaxTime}
Durations == {None} \cup {Some(Seconds(d)) : d \in 0..MaxTime}
Snrs == {None, Some(10)}

\* the options a caller truncates with, the same in every call it makes
Options == [keep_excessive_supervisions : BOOLEAN, preserve_id : BOOLEAN]

\* ---------------------------------------------------------------- state
VARIABLES left, right, nextId, calls, options, last, cut_set, other_set, heap

vars == <<left, right, nextId, calls, options, last, cut_set, other_set, heap>>

Call(op, self, other, offset, dur, keep, preserve_id, snr, cuts, result) ==
    [op |-> op, self |-> self, other |-> other, offset |-> offset, duration |-> dur,
     keep_excessive_supervisions |-> keep, preserve_id |-> preserve_id, snr |-> snr,
     cuts |-> cuts, result |-> result]

NoCall == Call("none", None, None, 0, None, TRUE, FALSE, None, <<>>, None)

NumTracks(c) == IF c.type = "MixedCut" THEN Len(c.tracks) ELSE 0

\* the bound of the model on the length of the track list
WithinBounds(r) == ~IsError(r.val) => NumTracks(r.val) <= MaxTracks

\* the receiver of the next call is the value returned, when one is returned
Finish(call, r) ==
    /\ calls < MaxCalls
    /\ WithinBounds(r)
    /\ calls' = calls + 1
    /\ last' = call
    /\ left' = IF IsError(r.val) THEN left ELSE r.val
    /\ nextId' = r.nid
    /\ UNCHANGED <<right, options, cut_set, other_set, heap>>

Init ==
    /\ left \in SimpleCuts(1, Starts, {Features(20)})
    /\ right \in SimpleCuts(2, {0}, FeaturePool)
    /\ nextId = 3
    /\ calls = 0
    /\ options \in Options
    /\ last = NoCall
    /\ cut_set = CutSet(<<>>)
    /\ other_set = CutSet(<<>>)
    /\ heap = <<>>

CallTruncate ==
    \E offset \in Offsets, dur \in Durations :
        LET keep == options.keep_excessive_supervisions
            preserve_id == options.preserve_id
            r == truncate(left, offset, dur, keep, preserve_id, nextId)
        IN  Finish(Call("truncate", left, None, offset, dur, keep, preserve_id, None, <<>>, r.val), r)

CallOverlay ==
    \E offset_other_by \in Offsets, snr \in Snrs :
        LET r == overlay(left, right, offset_other_by, snr, nextId)
        IN  Finish(Call("overlay", left, right, offset_other_by, None, TRUE, FALSE, snr, <<>>, r.val), r)

CallAppend ==
    \E snr \in Snrs :
        LET r == append(left, right, snr, nextId)
        IN  Finish(Call("append", left, right, 0, None, TRUE, FALSE, snr, <<>>, r.val), r)

\* the cuts handed to a fold: n cuts taken in turn from the two values held
CutLists == {[i \in 1..n |-> IF i % 2 = 1 THEN 1 ELSE 2] : n \in 0..MaxTracks}

Operands(sel) == [i \in 1..Len(sel) |-> IF sel[i] = 1 THEN left ELSE right]

CallMixCuts ==
    \E sel \in CutLists :
        LET r == mix_cuts(Operands(sel), nextId)
        IN  Finish(Call("mix_cuts", None, None, 0, None, TRUE, FALSE, None, Operands(sel), r.val), r)

CallAppendCuts ==
    \E sel \in CutLists :
        LET r == append_cuts(Operands(sel), nextId)
        IN  Finish(Call("append_cuts", None, None, 0, None, TRUE, FALSE, None, Operands(sel), r.val), r)

\* the caller passes the value just returned as the argument of the next call
PassResult ==
    /\ calls > 0 /\ left = last.result
    /\ left' = right
    /\ right' = left
    /\ UNCHANGED <<nextId, calls, options, last, cut_set, other_set, heap>>

Next == CallTruncate \/ CallOverlay \/ CallAppend \/ CallMixCuts \/ CallAppendCuts \/ PassResult

Spec == Init /\ [][Next]_vars

\* ================================================================ claims
\* ================================================================ CutSet
\* Operations on cut sets: CutSet.truncate, union, split and from_cuts.
MaxItems == 4       \* most cuts in one cut set

\* the cut a cut set holds under an id: a short simple cut, a long one that
\* starts a second into its recording, an appended mix or an overlaid mix
SetCut(id) ==
    LET short == Cut(id + 10, 0, Seconds(1), Features(20), <<>>)
        long == CHOOSE c \in SimpleCuts(id + 20, {1}, {Features(20)}) : c.duration = Seconds(MaxDur)
    IN  CASE id % 4 = 1 -> [short EXCEPT !.id = id]
          [] id % 4 = 2 -> [long EXCEPT !.id = id]
          [] id % 4 = 3 -> append(long, short, None, id).val
          [] OTHER -> mix(long, short, 0, Some(10), id).val

\* the list of the n cuts with the ids first, first + 1, ...
SetList(first, n) == [i \in 1..n |-> SetCut(first + i - 1)]

\* the orders random.shuffle leaves n items in: as they were, rotated by one
\* place, or reversed
Orders(n) ==
    {[i \in 1..n |-> ((i + r - 1) % n) + 1] : r \in 0..1} \cup {[i \in 1..n |-> n + 1 - i]}

OffsetTypes == {"start", "end", "random", "middle"}

MaxDurations == {Seconds(d) : d \in 0..MaxTime}

SetCall(op, self, other, max_duration, offset_type, num_splits, randomize, result) ==
    [op |-> op, self |-> self, other |-> other, max_duration |-> max_duration,
     offset_type |-> offset_type, num_splits |-> num_splits, randomize |-> randomize,
     keep_excessive_supervisions |-> options.keep_excessive_supervisions,
     preserve_id |-> options.preserve_id, result |-> result]

SetInit ==
    /\ \E n \in 0..MaxItems : cut_set = from_cuts(SetList(1, n))
    /\ \E first \in {1, MaxItems + 4} : other_set = from_cuts(SetList(first, 1))
    /\ heap = <<>>
    /\ nextId = 100
    /\ calls = 0
    /\ options \in {o \in Options : o.keep_excessive_supervisions}
    /\ last = NoCall
    /\ left = None
    /\ right = None

\* the cut set the next call is made on is the one returned, when one is returned
SetFinish(call, result, nid) ==
    /\ calls < MaxCalls
    /\ (~IsError(result)) => CutSet_len(result) <= MaxItems
    /\ calls' = calls + 1
    /\ last' = call
    /\ cut_set' = IF IsError(result) THEN cut_set ELSE result
    /\ nextId' = nid
    /\ UNCHANGED <<left, right, options, other_set, heap>>

CallSetTruncate ==
    \E max_duration \in MaxDurations, offset_type \in OffsetTypes,
       draws \in [1..CutSet_len(cut_set) -> Draws] :
        /\ \A i \in DOMAIN draws :
                offset_type # "random" \/ ~HasDuration(cut_set.cuts[i].value)
                    \/ duration(cut_set.cuts[i].value) <= max_duration
                    => draws[i] = 0
        /\ LET r == CutSet_truncate(cut_set, draws, max_duration, offset_type,
                                    options.keep_excessive_supervisions, options.preserve_id, nextId)
           IN  SetFinish(SetCall("CutSet.truncate", cut_set, None, max_duration, offset_type,
                                 0, FALSE, r.val), r.val, r.nid)

CallSetAdd ==
    LET r == CutSet_add(cut_set, other_set)
    IN  SetFinish(SetCall("CutSet.__add__", cut_set, other_set, 0, "", 0, FALSE, r), r, nextId)

CallFromCuts ==
    LET r == from_cuts(CutSet_iter(cut_set) \o CutSet_iter(other_set))
    IN  SetFinish(SetCall("from_cuts", cut_set, other_set, 0, "", 0, FALSE, r), r, nextId)

\* the caller goes on with the first part
CallSplit ==
    \E num_splits \in 0..(MaxItems + 1), randomize \in BOOLEAN,
       order \in Orders(CutSet_len(cut_set)) :
        /\ ~randomize => \A i \in DOMAIN order : order[i] = i
        /\ LET r == split(cut_set, num_splits, randomize, order)
           IN  SetFinish(SetCall("split", cut_set, None, 0, "", num_splits, randomize, r),
                         IF IsError(r) THEN r ELSE r.items[1], nextId)

SetNext == CallSetTruncate \/ CallSetAdd \/ CallFromCuts \/ CallSplit

SetSpec == SetInit /\ [][SetNext]_vars

\* ================================================================ Cut.truncate
\* Cut.truncate applied to simple cuts, with offsets and durations on and off
\* the whole seconds, and offsets before the start of the cut.
TruncOffsets == {Seconds(t) + e : t \in (-1)..MaxTime, e \in {0, Epsilon}}

TruncDurations ==
    {None} \cup {Some(Seconds(d) + e) : d \in 0..MaxTime, e \in {-Epsilon, 0, Epsilon, 2 * Epsilon}}

TruncInit ==
    /\ left \in SimpleCuts(1, Starts, {Features(20)})
    /\ right = None
    /\ nextId = 3
    /\ calls = 0
    /\ options \in Options
    /\ last = NoCall
    /\ cut_set = CutSet(<<>>)
    /\ other_set = CutSet(<<>>)
    /\ heap = <<>>

\* one call of Cut.truncate on the cut
CallCutTruncate ==
    \E offset \in TruncOffsets, dur \in TruncDurations :
        LET keep == options.keep_excessive_supervisions
            preserve_id == options.preserve_id
            r == Cut_truncate(left, offset, dur, keep, preserve_id, nextId)
        IN  /\ calls = 0
            /\ calls' = 1
            /\ last' = Call("truncate", left, None, offset, dur, keep, preserve_id, None, <<>>, r.val)
            /\ UNCHANGED <<left, right, nextId, options, cut_set, other_set, heap>>

TruncNext == CallCutTruncate

TruncSpec == TruncInit /\ [][TruncNext]_vars

\* ================================================================ windows
\* make_windowed_cuts_from_features applied to feature sets of one or two
\* Features objects.
MaxSpan == 12       \* longest Features object, in seconds
MaxWindow == 5      \* longest window and shift, in seconds

FeatureSets ==
    LET one == {FeaturesAt(Seconds(s), Seconds(d)) : s \in 0..1, d \in 1..MaxSpan}
    IN  {<<>>} \cup {<<f>> : f \in one} \cup {<<f, FeaturesAt(0, Seconds(1))>> : f \in one}

CutDurations == {Seconds(w) : w \in 1..MaxWindow}

CutShifts == {None} \cup {Some(Seconds(w)) : w \in 0..MaxWindow}

WinCall(feature_set, cut_duration, cut_shift, keep_shorter_windows, result) ==
    [op |-> "make_windowed_cuts_from_features", feature_set |-> feature_set,
     cut_duration |-> cut_duration, cut_shift |-> cut_shift,
     keep_shorter_windows |-> keep_shorter_windows, result |-> result]

WinInit ==
    /\ cut_set = CutSet(<<>>)
    /\ other_set = CutSet(<<>>)
    /\ heap = <<>>
    /\ nextId = 1
    /\ calls = 0
    /\ options \in {o \in Options : o.keep_excessive_supervisions /\ ~o.preserve_id}
    /\ last = NoCall
    /\ left = None
    /\ right = None

\* one call of make_windowed_cuts_from_features
CallWindowed ==
    \E feature_set \in FeatureSets, cut_duration \in CutDurations, cut_shift \in CutShifts,
       keep_shorter_windows \in BOOLEAN :
        LET r == make_windowed_cuts_from_features(feature_set, cut_duration, cut_shift,
                                                  keep_shorter_windows, 1)
        IN  /\ calls = 0
            /\ calls' = 1
            /\ last' = WinCall(feature_set, cut_duration, cut_shift, keep_shorter_windows, r.val)
            /\ UNCHANGED <<left, right, nextId, options, cut_set, other_set, heap>>

WinNext == CallWindowed

WinSpec == WinInit /\ [][WinNext]_vars

\* ================================================================ objects
\* The operations applied to objects on the heap: left is the receiver, right
\* the argument, and the object returned is kept in the record of the call.
HeapReceivers ==
    SimpleCuts(1, {1}, {Features(20)}) \cup {SetCut(3), SetCut(4), from_cuts(SetList(1, 2))}

HeapArguments ==
    {SetCut(5), SetCut(7), from_cuts(SetList(2, 1)), from_cuts(SetList(6, 2))}

IsCutSet(obj) == obj.type = "CutSet"

HeapInit ==
    /\ \E receiver \in HeapReceivers, argument \in HeapArguments :
          /\ heap = <<container(receiver), container(argument)>>
          /\ left = with_container(receiver, 1)
          /\ right = with_container(argument, 2)
    /\ nextId = 100
    /\ calls = 0
    /\ options \in {o \in Options : o.keep_excessive_supervisions}
    /\ last = NoCall
    /\ cut_set = CutSet(<<>>)
    /\ other_set = CutSet(<<>>)

\* the call returns: the receiver and the argument stay where they are
HeapFinish(call, out) ==
    /\ calls < MaxCalls
    /\ (~IsError(out.val)) => Len(out.heap[container(out.val)]) <= MaxTracks
    /\ calls' = calls + 1
    /\ last' = call
    /\ heap' = out.heap
    /\ nextId' = out.nid
    /\ UNCHANGED <<left, right, options, cut_set, other_set>>

HeapTruncate ==
    /\ ~IsCutSet(left)
    /\ \E offset \in Offsets, dur \in Durations :
        LET keep == options.keep_excessive_supervisions
            preserve_id == options.preserve_id
            out == Heap_truncate(heap, left, offset, dur, keep, preserve_id, nextId)
        IN  HeapFinish(Call("truncate", left, None, offset, dur, keep, preserve_id, None, <<>>, out.val),
                       out)

HeapOverlay ==
    /\ ~IsCutSet(left) /\ ~IsCutSet(right)
    /\ \E offset_other_by \in Offsets, snr \in Snrs :
        LET r == overlay(deref(heap, left), deref(heap, right), offset_other_by, snr, nextId)
            out == Heap_overlay(heap, left, right, offset_other_by, snr, r)
        IN  HeapFinish(Call("overlay", left, right, offset_other_by, None, TRUE, FALSE, snr, <<>>, out.val),
                       out)

HeapAppend ==
    /\ ~IsCutSet(left) /\ ~IsCutSet(right)
    /\ \E snr \in Snrs :
        LET self == deref(heap, left)
            r == append(self, deref(heap, right), snr, nextId)
            out == Heap_overlay(heap, left, right, duration(self), snr, r)
        IN  HeapFinish(Call("append", left, right, 0, None, TRUE, FALSE, snr, <<>>, out.val), out)

HeapSetTruncate ==
    /\ IsCutSet(left)
    /\ \E max_duration \in MaxDurations, offset_type \in OffsetTypes,
          draws \in [1..Len(heap[left.cuts]) -> Draws] :
        LET out == Heap_CutSet_truncate(heap, left, draws, max_duration, offset_type,
                                        options.keep_excessive_supervisions,
                                        options.preserve_id, nextId)
        IN  HeapFinish(SetCall("CutSet.truncate", left, None, max_duration, offset_type,
                               0, FALSE, out.val), out)

HeapSetAdd ==
    /\ IsCutSet(left) /\ IsCutSet(right)
    /\ LET out == Heap_CutSet_add(heap, left, right, nextId)
       IN  HeapFinish(SetCall("CutSet.__add__", left, right, 0, "", 0, FALSE, out.val), out)

\* the caller makes the next call on the object returned, with the old receiver
\* as the argument
HeapPassResult ==
    /\ calls > 0 /\ ~IsError(last.result) /\ left # last.result
    /\ left' = last.result
    /\ right' = left
    /\ UNCHANGED <<nextId, calls, options, last, cut_set, other_set, heap>>

HeapNext ==
    \/ HeapTruncate \/ HeapOverlay \/ HeapAppend
    \/ HeapSetTruncate \/ HeapSetAdd \/ HeapPassResult

HeapSpec == HeapInit /\ [][HeapNext]_vars

\* ---------------------------------------------------------------- truncating a mix
\* the simple cut on track k of a mix: every other one starts a second into
\* its recording
MixCut(k, dur) ==
    CHOOSE c \in SimpleCuts(k, {k % 2}, {Features(20)}) : c.duration = Seconds(dur)

\* the mix left by overlaying the cuts k, k + 1, ... on self, one call of
\* overlay for each, at the offsets given; every other one with an snr
RECURSIVE overlaid(_, _, _, _)
overlaid(self, k, durs, offsets) ==
    IF k > Len(durs) \/ IsError(self) THEN self
    ELSE overlaid(overlay(self, MixCut(k, durs[k]), Seconds(offsets[k]),
                          IF k % 2 = 0 THEN Some(10) ELSE None, 10 + k).val,
                  k + 1, durs, offsets)

\* a mix of two to MaxTracks simple cuts, as the calls of overlay that the
\* assertions of overlay let through build it
MixInit ==
    /\ \E n \in 2..MaxTracks :
         \E durs \in [1..n -> 1..MaxDur], offsets \in [1..n -> 0..MaxTime] :
            /\ offsets[1] = 0
            /\ left = overlaid(MixCut(1, durs[1]), 2, durs, offsets)
            /\ ~IsError(left)
    /\ right = None
    /\ nextId = 100
    /\ calls = 0
    /\ options \in {o \in Options : o.keep_excessive_supervisions}
    /\ last = NoCall
    /\ cut_set = CutSet(<<>>)
    /\ other_set = CutSet(<<>>)
    /\ heap = <<>>

\* one call of MixedCut.truncate on the mix
CallMixTruncate ==
    \E offset \in Offsets, dur \in Durations :
        LET keep == options.keep_excessive_supervisions
            preserve_id == options.preserve_id
            r == MixedCut_truncate(left, offset, dur, keep, preserve_id, nextId)
        IN  /\ calls = 0
            /\ calls' = 1
            /\ last' = Call("truncate", left, None, offset, dur, keep, preserve_id, None, <<>>, r.val)
            /\ UNCHANGED <<left, right, nextId, options, cut_set, other_set, heap>>

MixNext == CallMixTruncate

MixSpec == MixInit /\ [][MixNext]_vars

IsCall(op) == last.op = op

Returns == last.op # "none" /\ ~IsError(last.result)

\* C1: for cuts a and b with equal num_features and 0 <= offset <= a.duration,
\* a.overlay(b, offset_other_by=offset).duration = max(a.duration, offset + b.duration)
C1_OverlayDuration ==
    (/\ IsCall("overlay")
     /\ HasDuration(last.self) /\ HasDuration(last.other)
     /\ num_features(last.self) = num_features(last.other)
     /\ last.offset <= duration(last.self))
    => (/\ Returns
        /\ duration(last.result) = max(duration(last.self), last.offset + duration(last.other)))

\* C2: a.append(b) places b right after a: the last track of the result has offset a.duration
C2_AppendPlacement ==
    (IsCall("append") /\ Returns)
    => last.result.tracks[Len(last.result.tracks)].offset = duration(last.self)

IsFlat(c) == c.type = "MixedCut" => \A i \in 1..Len(c.tracks) : c.tracks[i].cut.type = "Cut"

C4_FirstTrackAnchors ==
    (/\ last.op \in {"overlay", "append", "truncate"} /\ Returns
     /\ last.result.type = "MixedCut")
    => (/\ Len(last.result.tracks) > 0
        /\ last.result.tracks[1].offset = 0)


\* C5, as stated: for any cut c and 0 <= d <= c.duration, c.truncate(duration=d)
\* returns a cut whose duration is d
C5_TruncateDuration ==
    (/\ IsCall("truncate") /\ last.offset = 0 /\ last.duration # None
     /\ HasDuration(last.self)
     /\ last.duration[1] <= duration(last.self))
    => (/\ Returns /\ HasDuration(last.result)
        /\ duration(last.result) = last.duration[1])

\* C5, amended: for any cut c, simple or built from simple cuts by overlay, append and
\* truncate, and 0 < d <= c.duration, c.truncate(duration=d) returns a cut whose
\* duration is d
C5_TruncateDurationPositive ==
    (/\ IsCall("truncate") /\ last.offset = 0 /\ last.duration # None
     /\ HasDuration(last.self)
     /\ 0 < last.duration[1] /\ last.duration[1] <= duration(last.self))
    => (/\ Returns /\ HasDuration(last.result)
        /\ duration(last.result) = last.duration[1])

C5_Witness ==
    /\ IsCall("truncate") /\ Returns /\ last.offset = 0 /\ last.duration # None
    /\ last.self.type = "MixedCut" /\ Len(last.self.tracks) >= 2
    /\ 0 < last.duration[1] /\ last.duration[1] < duration(last.self)
    /\ Len(last.result.tracks) >= 2

\* C6: c.truncate(offset=0, duration=c.duration, preserve_id=True) equals c in all
\* its fields (id, start, duration, supervisions, features, track list)
C6_TruncateIdentity ==
    (/\ IsCall("truncate") /\ last.offset = 0
     /\ HasDuration(last.self)
     /\ last.duration = Some(duration(last.self))
     /\ last.keep_excessive_supervisions /\ last.preserve_id)
    => (Returns /\ last.result = last.self)

\* C7: Cut.truncate(offset, duration) returns a Cut with start = self.start + offset
\* and duration = the duration given, else self.duration - offset, whatever self.start
C7_TruncateStartDuration ==
    (IsCall("truncate") /\ last.self.type = "Cut" /\ Returns)
    => (/\ last.result.start = last.self.start + last.offset
        /\ last.result.duration = (IF last.duration # None THEN last.duration[1]
                                   ELSE last.self.duration - last.offset))

\* C8: Cut.truncate keeps, in their order, exactly the supervisions that overlap the
\* new span [new_start, new_start + new_duration) when keep_excessive_supervisions,
\* and exactly those the new span fully contains when not
C8_SupervisionFiltering ==
    (IsCall("truncate") /\ last.self.type = "Cut" /\ Returns)
    => LET new_start == last.result.start
           new_end == last.result.start + last.result.duration
           kept(s) == IF last.keep_excessive_supervisions
                      THEN s.start < new_end /\ new_start < s.start + s.duration
                      ELSE new_start <= s.start /\ s.start + s.duration <= new_end
       IN  last.result.supervisions = SelectSeq(last.self.supervisions, kept)

C8_Witness ==
    /\ IsCall("truncate") /\ last.self.type = "Cut" /\ Returns
    /\ ~last.keep_excessive_supervisions
    /\ Len(last.result.supervisions) = 2
    /\ \E i \in 1..Len(last.self.supervisions) :
          LET s == last.self.supervisions[i]
              new_end == last.result.start + last.result.duration
          IN  s.start < new_end /\ s.start + s.duration > new_end

\* C9: MixedCut.truncate(offset) without a duration, 0 <= offset < the mix's duration,
\* returns a MixedCut whose duration is the mix's duration - offset, and never fails
C9_TruncateDefaultDuration ==
    (/\ IsCall("truncate") /\ last.self.type = "MixedCut" /\ last.duration = None
     /\ HasDuration(last.self)
     /\ last.offset < duration(last.self))
    => (/\ Returns /\ last.result.type = "MixedCut" /\ HasDuration(last.result)
        /\ duration(last.result) = duration(last.self) - last.offset)

\* C10: truncate with preserve_id returns a cut with the receiver's id, and without
\* it a cut with a fresh id, for Cut and for MixedCut
C10_PreserveId ==
    (IsCall("truncate") /\ Returns)
    => (/\ last.preserve_id => last.result.id = last.self.id
        /\ ~last.preserve_id => last.result.id # last.self.id)

\* C11: CutSet.truncate(max_duration, offset_type in {start, end, random})
\* returns a CutSet in which every cut lasts at most max_duration: a cut that
\* lasts at most max_duration is in it unchanged, and a longer one, simple or
\* mixed, is replaced by a cut that lasts exactly max_duration.
TruncatedAsClaimed(cut, new, max_duration) ==
    IF duration(cut) <= max_duration THEN new = cut
    ELSE HasDuration(new) /\ duration(new) = max_duration

C12_Union ==
    IsCall("CutSet.__add__")
    => IF Keys(last.self.cuts) \cap Keys(last.other.cuts) # {}
       THEN IsError(last.result)
       ELSE /\ ~IsError(last.result)
            /\ CutSet_len(last.result) = CutSet_len(last.self) + CutSet_len(last.other)
            /\ CutSet_iter(last.result) = CutSet_iter(last.self) \o CutSet_iter(last.other)

\* two disjoint cut sets with cuts in them are united
C12_Witness ==
    /\ IsCall("CutSet.__add__") /\ ~IsError(last.result)
    /\ CutSet_len(last.self) > 1 /\ CutSet_len(last.other) > 0

\* C13: in every CutSet produced by a sequence of from_cuts, truncate, union and
\* split, each key of the cuts mapping is the id of the cut stored under it, and
\* so no two cuts of the set have the same id.
KeysAreIds(set) ==
    /\ \A i \in 1..CutSet_len(set) : set.cuts[i].key = set.cuts[i].value.id
    /\ \A i, j \in 1..CutSet_len(set) : set.cuts[i].value.id = set.cuts[j].value.id => i = j

C13_KeysAreIds ==
    /\ KeysAreIds(cut_set)
    /\ KeysAreIds(other_set)
    /\ (IsCall("split") /\ ~IsError(last.result))
        => \A k \in 1..Len(last.result.items) : KeysAreIds(last.result.items[k])

\* a cut set returned by an earlier call is truncated to cuts with fresh ids
C13_Witness ==
    /\ calls = 2 /\ IsCall("CutSet.truncate") /\ ~IsError(last.result)
    /\ CutSet_len(cut_set) > 1
    /\ \E i \in 1..CutSet_len(cut_set) : cut_set.cuts[i].key >= 100

\* C14: overlay, on a Cut or a MixedCut, fails with an error and produces no
\* MixedCut when self.num_features # other.num_features or when offset_other_by
\* is greater than self.duration; otherwise it returns a MixedCut.
C14_OverlayPreconditions ==
    (/\ IsCall("overlay")
     /\ HasNumFeatures(last.self) /\ HasNumFeatures(last.other) /\ HasDuration(last.self))
    => IF \/ num_features(last.self) # num_features(last.other)
          \/ last.offset > duration(last.self)
       THEN IsError(last.result)
       ELSE ~IsError(last.result) /\ last.result.type = "MixedCut"

\* a cut of the same feature dimension is overlaid past the end of a simple cut
C14_Witness ==
    /\ IsCall("overlay") /\ last.self.type = "Cut" /\ HasNumFeatures(last.other)
    /\ num_features(last.self) = num_features(last.other)
    /\ last.offset > duration(last.self)
    /\ IsError(last.result)

\* C15: Cut.truncate fails with an error and returns no Cut whenever the new
\* duration it computes is not positive or new_start + new_duration is past the
\* receiver's end by more than the tolerance; whenever it returns, for every
\* offset and duration given, the Cut returned is a sub-region of the receiver:
\* it starts no earlier and ends no later than the receiver.
C15_TruncateSubRegion ==
    (IsCall("truncate") /\ last.self.type = "Cut")
    => LET self == last.self
           new_start == self.start + last.offset
           new_duration == IF last.duration = None THEN self.duration - new_start
                           ELSE last.duration[1]
       IN  /\ (\/ new_duration <= 0
               \/ new_start + new_duration > self.start + self.duration + Epsilon)
              => IsError(last.result)
           /\ ~IsError(last.result)
              => /\ last.result.start >= self.start
                 /\ last.result.start + last.result.duration <= self.start + self.duration

\* C16: mix_cuts of a non-empty sequence of simple cuts of equal num_features
\* returns a MixedCut with one track per cut, in the order given, every track at
\* offset 0 with snr None; mix_cuts of an empty sequence fails with an error.
C16_MixCuts ==
    IsCall("mix_cuts")
    => IF last.cuts = <<>> THEN IsError(last.result)
       ELSE (\A i \in 1..Len(last.cuts) :
                /\ last.cuts[i].type = "Cut"
                /\ num_features(last.cuts[i]) = num_features(last.cuts[1]))
            => /\ ~IsError(last.result)
               /\ last.result.type = "MixedCut"
               /\ last.result.tracks = [i \in 1..Len(last.cuts) |-> MixTrack(last.cuts[i], 0, None)]

\* C17: with keep_shorter_windows=False, make_windowed_cuts_from_features makes,
\* for any cut_duration and any cut_shift, only cuts that last exactly
\* cut_duration: a window that cannot is discarded, never made shorter.
C17_FullWindowsOnly ==
    (/\ IsCall("make_windowed_cuts_from_features")
     /\ ~last.keep_shorter_windows /\ ~IsError(last.result))
    => \A i \in 1..CutSet_len(last.result) :
          last.result.cuts[i].value.duration = last.cut_duration

\* C18: with cut_shift equal to cut_duration = w, a feature region [s, s + D) is
\* cut, with keep_shorter_windows=False, into exactly floor(D / w) cuts
\* [s + i * w, s + (i + 1) * w), the remainder discarded, and with
\* keep_shorter_windows=True into exactly ceil(D / w) cuts that tile [s, s + D),
\* the last one lasting D - (n - 1) * w.
Floor(D, w) == CHOOSE n \in 0..MaxSpan : n * w <= D /\ D < (n + 1) * w

Ceil(D, w) == CHOOSE n \in 0..MaxSpan : (n - 1) * w < D /\ D <= n * w

\* the windows the claim names, as <<start, duration>>
TilingOf(features, w, keep_shorter_windows) ==
    LET D == features.duration
        n == IF keep_shorter_windows THEN Ceil(D, w) ELSE Floor(D, w)
    IN  [i \in 1..n |->
            <<features.start + (i - 1) * w,
              IF keep_shorter_windows /\ i = n THEN D - (n - 1) * w ELSE w>>]

RECURSIVE TilingsOf(_, _, _)
TilingsOf(feature_set, w, keep_shorter_windows) ==
    IF feature_set = <<>> THEN <<>>
    ELSE TilingOf(Head(feature_set), w, keep_shorter_windows)
         \o TilingsOf(Tail(feature_set), w, keep_shorter_windows)

C18_Tiling ==
    (/\ IsCall("make_windowed_cuts_from_features")
     /\ last.cut_shift \in {None, Some(last.cut_duration)})
    => /\ ~IsError(last.result)
       /\ [i \in 1..CutSet_len(last.result) |->
              <<last.result.cuts[i].value.start, last.result.cuts[i].value.duration>>]
          = TilingsOf(last.feature_set, last.cut_duration, last.keep_shorter_windows)

\* 12 seconds are cut into windows of 5 seconds and the remainder of 2 is kept
C18_Witness ==
    /\ IsCall("make_windowed_cuts_from_features") /\ last.keep_shorter_windows
    /\ last.cut_shift = None /\ last.cut_duration = Seconds(5)
    /\ Len(last.feature_set) = 1 /\ last.feature_set[1].duration = Seconds(12)
    /\ ~IsError(last.result) /\ CutSet_len(last.result) = 3
    /\ last.result.cuts[3].value.duration = Seconds(2)

\* C19: split(manifest, num_splits) fails with an error when num_splits is
\* greater than the number of items; otherwise, for 1 <= num_splits <= the number
\* of items, it returns exactly num_splits parts, none of them empty, the sizes of
\* any two of them differing by at most one.
C19_SplitEqualParts ==
    IsCall("split")
    => LET num_items == CutSet_len(last.self)
           parts == last.result.items
       IN  IF last.num_splits > num_items THEN IsError(last.result)
           ELSE last.num_splits >= 1
                => /\ ~IsError(last.result)
                   /\ Len(parts) = last.num_splits
                   /\ \A k \in 1..Len(parts) : CutSet_len(parts[k]) > 0
                   /\ \A k, l \in 1..Len(parts) :
                          CutSet_len(parts[k]) - CutSet_len(parts[l]) <= 1

WindowOf(tracks, new_tracks, lo, hi) ==
    LET track_end(t) == t.offset + t.cut.duration
        met == {i \in 1..Len(tracks) :
                    max(tracks[i].offset, lo) < min(track_end(tracks[i]), hi)}
    IN  /\ Len(new_tracks) = Cardinality(met)
        /\ \E from \in [1..Len(new_tracks) -> met] :
             /\ \A i, j \in 1..Len(new_tracks) :
                    i < j => /\ from[i] # from[j]
                             /\ tracks[from[i]].offset <= tracks[from[j]].offset
             /\ \A i \in 1..Len(new_tracks) :
                    LET t == tracks[from[i]]
                        new == new_tracks[i]
                    IN  /\ new.offset = max(t.offset - lo, 0)
                        /\ new.cut.type = "Cut"
                        /\ new.cut.start = t.cut.start + max(lo - t.offset, 0)
                        /\ new.cut.duration = min(track_end(t), hi) - max(t.offset, lo)
                        /\ new.snr = t.snr

C21_WindowIntersection ==
    (/\ IsCall("truncate") /\ last.self.type = "MixedCut" /\ last.duration # None
     /\ HasDuration(last.self)
     /\ 0 <= last.offset /\ last.offset + last.duration[1] <= duration(last.self))
    => (/\ Returns /\ last.result.type = "MixedCut"
        /\ WindowOf(last.self.tracks, last.result.tracks,
                    last.offset, last.offset + last.duration[1]))

C21_Witness ==
    /\ IsCall("truncate") /\ Returns /\ last.self.type = "MixedCut"
    /\ last.duration # None /\ last.offset > 0
    /\ last.offset + last.duration[1] < duration(last.self)
    /\ \E i, j \in 1..Len(last.self.tracks) :
          i < j /\ last.self.tracks[i].offset > last.self.tracks[j].offset
    /\ Len(last.result.tracks) = 2 /\ Len(last.self.tracks) = 3
    /\ last.result.tracks[1].cut.start > last.self.tracks[1].cut.start
    /\ last.result.tracks[2].snr = last.self.tracks[3].snr
    /\ last.result.tracks[2].cut.duration < last.self.tracks[3].cut.duration


\* the cuts of the parts, one part after the other
RECURSIVE Chained(_)
Chained(parts) ==
    IF parts = <<>> THEN <<>> ELSE CutSet_iter(Head(parts)) \o Chained(Tail(parts))

PartitionOf(set, parts) ==
    /\ \A i \in 1..CutSet_len(set) :
          Cardinality({k \in 1..Len(parts) : set.cuts[i].key \in Keys(parts[k].cuts)}) = 1
    /\ \A k, l \in 1..Len(parts) : k # l => Keys(parts[k].cuts) \cap Keys(parts[l].cuts) = {}
    /\ Len(Chained(parts)) = CutSet_len(set)
    /\ Chained(parts) = CutSet_iter(set)
    /\ combine(parts) = set

\* C22, as stated: split(cut_set, num_splits, randomize=False) with
\* num_splits <= len(cut_set) partitions the set: every cut is in exactly one
\* part, the parts are pairwise id-disjoint and their sizes sum to len(cut_set),
\* the parts one after the other give the iteration order of the input, and
\* their union is the original CutSet
C22_SplitPartition ==
    (/\ IsCall("split") /\ ~last.randomize
     /\ last.num_splits <= CutSet_len(last.self))
    => (/\ ~IsError(last.result)
        /\ PartitionOf(last.self, last.result.items))

\* C22, amended: the same for 1 <= num_splits <= len(cut_set)
C22_SplitPartitionPositive ==
    (/\ IsCall("split") /\ ~last.randomize
     /\ 1 <= last.num_splits /\ last.num_splits <= CutSet_len(last.self))
    => (/\ ~IsError(last.result)
        /\ PartitionOf(last.self, last.result.items))

C22_Witness ==
    /\ IsCall("split") /\ ~last.randomize /\ Returns
    /\ last.num_splits = 3 /\ CutSet_len(last.self) = 4
    /\ CutSet_len(last.result.items[1]) = 2
    /\ CutSet_len(last.result.items[3]) = 0
    /\ combine(last.result.items) = last.self

====
